---- MODULE Spec2Model ----
(***************************************************************************)
(* Model of Yproblem.py: the unit-cell solver Y_solver for the effective   *)
(* permittivity of a periodic two-phase composite.                         *)
(*                                                                         *)
(* Four specifications share the module:                                   *)
(*   SpecPB     the periodic boundary map (PeriodicBoundary.inside / map   *)
(*              and the pairing of boundary points built from them),       *)
(*   SpecCoeff  the permittivity coefficient (Coeff.eval_cell),            *)
(*   Spec       Y_solver itself, statement by statement in program order,  *)
(*   SpecPar    the same statements scheduled by data dependency only.     *)
(*                                                                         *)
(* Real numbers are exact: a coordinate is an integer number of grid       *)
(* units (One units make the length 1), every other real is a reduced      *)
(* fraction <<numerator, denominator>>.                                    *)
(***************************************************************************)
EXTENDS Integers, Sequences, FiniteSets, TLC

\* ------------------------------------------------------------------------
\* Bounds of the model
\* ------------------------------------------------------------------------
GridN == 2
MaxPerm == 2
MaxTag == 3
MaxShift == 1
MaxInclusion == 1

\* the edge length 1 of the unit cell, in grid units
One == 2 * GridN

\* the input mesh: MeshN x MeshN squares, each cut into two triangles
MeshN == 2

None == "None"

\* ------------------------------------------------------------------------
\* Points
\* ------------------------------------------------------------------------
Pt(a, b) == [i \in 0..1 |-> IF i = 0 THEN a ELSE b]

SquarePoints == {Pt(a, b) : a \in 0..One, b \in 0..One}

\* dolfin's near(x, x0): |x - x0| <= DOLFIN_EPS (3e-16).  Grid coordinates
\* are at least 1/One apart, far above the tolerance, so two grid values are
\* near exactly when they are equal.
near(x, x0) == x = x0

\* ------------------------------------------------------------------------
\* PeriodicBoundary
\* ------------------------------------------------------------------------
\* inside without the exclusion of the corners (0,1) and (1,0)
inside_keepcorners(x, on_boundary) ==
    /\ (near(x[0], 0) \/ near(x[1], 0))
    /\ on_boundary

inside(x, on_boundary) ==
    /\ (near(x[0], 0) \/ near(x[1], 0))
    /\ ~ ((near(x[0], 0) /\ near(x[1], One)) \/ (near(x[0], One) /\ near(x[1], 0)))
    /\ on_boundary

\* map without its first branch: the corner (1,1) is treated as a right-edge point
map_nocorner(x, y) ==
    IF near(x[0], One)
    THEN [y EXCEPT ![0] = x[0] - One, ![1] = x[1]]
    ELSE [y EXCEPT ![0] = x[0], ![1] = x[1] - One]

\* map with the last two branches tried in the other order
map_topfirst(x, y) ==
    IF near(x[0], One) /\ near(x[1], One)
    THEN [y EXCEPT ![0] = x[0] - One, ![1] = x[1] - One]
    ELSE IF near(x[1], One)
         THEN [y EXCEPT ![0] = x[0], ![1] = x[1] - One]
         ELSE [y EXCEPT ![0] = x[0] - One, ![1] = x[1]]

\* map(x, y) writes the image of x into the caller's array y; the value of
\* the operator is y after the call
map(x, y) ==
    IF near(x[0], One) /\ near(x[1], One)
    THEN [y EXCEPT ![0] = x[0] - One, ![1] = x[1] - One]
    ELSE IF near(x[0], One)
         THEN [y EXCEPT ![0] = x[0] - One, ![1] = x[1]]
         ELSE [y EXCEPT ![0] = x[0], ![1] = x[1] - One]

\* a point of the square lies on its boundary
OnBoundary(p) == p[0] \in {0, One} \/ p[1] \in {0, One}

\* The pairing the constrained function space makes of a boundary point x:
\* a point that inside() accepts keeps its own degree of freedom; any other
\* boundary point is mapped, and shares the degree of freedom of its image
\* when inside() accepts the image.
PeriodicPartner(x) ==
    IF ~ OnBoundary(x) \/ inside(x, TRUE)
    THEN x
    ELSE LET y == map(x, Pt(0, 0))
         IN IF inside(y, TRUE) THEN y ELSE x

\* ------------------------------------------------------------------------
\* Exact real arithmetic: a real is a reduced fraction <<n, d>> with d > 0;
\* <<0, 0>> is the floating-point NaN and is absorbing
\* ------------------------------------------------------------------------
Abs(n) == IF n < 0 THEN -n ELSE n

RECURSIVE GCD(_, _)
GCD(a, b) == IF b = 0 THEN a ELSE GCD(b, a % b)

NaN == <<0, 0>>

Zero == <<0, 1>>

Unit == <<1, 1>>

IsNaN(r) == r[2] = 0

Rat(n, d) ==
    IF d = 0 THEN NaN
    ELSE LET g == GCD(Abs(n), Abs(d))
             s == IF d < 0 THEN -1 ELSE 1
         IN <<s * (n \div g), s * (d \div g)>>

RAdd(a, b) ==
    IF IsNaN(a) \/ IsNaN(b) THEN NaN
    ELSE IF a[1] = 0 THEN b
    ELSE IF b[1] = 0 THEN a
    ELSE Rat(a[1] * b[2] + b[1] * a[2], a[2] * b[2])

RNeg(a) == IF IsNaN(a) THEN NaN ELSE <<-a[1], a[2]>>

RSub(a, b) == RAdd(a, RNeg(b))

RMul(a, b) ==
    IF IsNaN(a) \/ IsNaN(b) THEN NaN
    ELSE IF a[1] = 0 \/ b[1] = 0 THEN Zero
    ELSE Rat(a[1] * b[1], a[2] * b[2])

RDiv(a, b) == IF IsNaN(a) \/ IsNaN(b) THEN NaN ELSE Rat(a[1] * b[2], a[2] * b[1])

\* ------------------------------------------------------------------------
\* The mesh read from the file: vertices, triangles, and the unit square it
\* tiles.  Vertex <<i, j>> lies at (i / MeshN, j / MeshN).
\* ------------------------------------------------------------------------
H == One \div MeshN

Vertices == (0..MeshN) \X (0..MeshN)

VCoord(v) == Pt(v[1] * H, v[2] * H)

VertexAt(p) == CHOOSE v \in Vertices : VCoord(v) = p

NumCells == 2 * MeshN * MeshN

Cells == 0..(NumCells - 1)

\* the three vertices of cell c, counter-clockwise: the square <<i, j>> is cut
\* along its diagonal from <<i, j>> to <<i+1, j+1>>
CellVertices(c) ==
    LET sq == c \div 2
        i == sq % MeshN
        j == sq \div MeshN
    IN IF c % 2 = 0
       THEN <<(<<i, j>>), (<<i + 1, j>>), (<<i + 1, j + 1>>)>>
       ELSE <<(<<i, j>>), (<<i + 1, j + 1>>), (<<i, j + 1>>)>>

\* twice the signed area of cell c, in grid units
CellDet(c) ==
    LET p == [a \in 1..3 |-> VCoord(CellVertices(c)[a])]
    IN (p[2][0] - p[1][0]) * (p[3][1] - p[1][1]) - (p[3][0] - p[1][0]) * (p[2][1] - p[1][1])

CellArea(c) == Rat(Abs(CellDet(c)), 2 * One * One)

\* Dx(phi_a, i) on cell c: the derivative in direction i of the P1 basis
\* function of the a-th vertex of c (constant on the cell)
DxPhi(c, a, i) ==
    Rat(One * (IF i = 0
               THEN VCoord(CellVertices(c)[(a % 3) + 1])[1]
                    - VCoord(CellVertices(c)[((a + 1) % 3) + 1])[1]
               ELSE VCoord(CellVertices(c)[((a + 1) % 3) + 1])[0]
                    - VCoord(CellVertices(c)[(a % 3) + 1])[0]),
        CellDet(c))

\* the geometry of the mesh, tabulated once: the gradients of the basis
\* functions, and the integrals over a cell of 1 and of grad(phi_a).grad(phi_b)
GradTable == [c \in Cells |-> [a \in 1..3 |-> [i \in 0..1 |-> DxPhi(c, a, i)]]]

AreaTable == [c \in Cells |-> CellArea(c)]

VertexTable == [c \in Cells |-> CellVertices(c)]

StiffnessTable ==
    [c \in Cells |-> [a \in 1..3 |-> [b \in 1..3 |->
        RMul(AreaTable[c],
             RAdd(RMul(GradTable[c][a][0], GradTable[c][b][0]),
                  RMul(GradTable[c][a][1], GradTable[c][b][1])))]]]

\* ------------------------------------------------------------------------
\* Coeff: the permittivity of a cell
\* ------------------------------------------------------------------------
Permittivities == {Rat(k, 1) : k \in (-1)..MaxPerm}

eval_cell_tag2(values, mk, cell, kin, kout) ==
    IF mk[cell] = 2
    THEN [values EXCEPT ![0] = kout]
    ELSE [values EXCEPT ![0] = kin]

\* eval_cell(values, x, cell) writes the value into values[0]; the value of
\* the operator is the array values after the call
eval_cell(values, mk, cell, kin, kout) ==
    IF mk[cell] = 1
    THEN [values EXCEPT ![0] = kin]
    ELSE [values EXCEPT ![0] = kout]

\* the coefficient "permittivity" on cell c, as a form evaluates it
permittivity(mk, c, kin, kout) == eval_cell([i \in {0} |-> Zero], mk, c, kin, kout)[0]

\* ------------------------------------------------------------------------
\* The P1 function space with periodic boundary conditions: Vm[v] is the
\* vertex that carries the degree of freedom of vertex v
\* ------------------------------------------------------------------------
FunctionSpace == [v \in Vertices |-> VertexAt(PeriodicPartner(VCoord(v)))]

Dofs(Vm) == {Vm[v] : v \in Vertices}

\* sum of f[1], ..., f[n]
RECURSIVE RSumTo(_, _)
RSumTo(f, n) == IF n = 0 THEN Zero ELSE RAdd(f[n], RSumTo(f, n - 1))

\* sum over all cells of the mesh of g[c]
OverCells(g) == RSumTo([n \in 1..NumCells |-> g[n - 1]], NumCells)

\* the degrees of freedom of the three vertices of cell c
CellDofs(Vm, c) == <<Vm[VertexTable[c][1]], Vm[VertexTable[c][2]], Vm[VertexTable[c][3]]>>

\* the integral over cell c of grad(u).grad(v) for the basis functions u, v of
\* the degrees of freedom r, s
CellStiffness(Vm, r, s, c) ==
    RSumTo([n \in 1..9 |->
        IF /\ CellDofs(Vm, c)[((n - 1) \div 3) + 1] = r
           /\ CellDofs(Vm, c)[((n - 1) % 3) + 1] = s
        THEN StiffnessTable[c][((n - 1) \div 3) + 1][((n - 1) % 3) + 1]
        ELSE Zero], 9)

\* CellStiffness on the space that Y_solver builds, tabulated once
SpaceStiffness ==
    [r \in Dofs(FunctionSpace) |-> [s \in Dofs(FunctionSpace) |->
        [c \in Cells |-> CellStiffness(FunctionSpace, r, s, c)]]]

\* assemble(permittivity * dot(grad(f), grad(v)) * dx): the stiffness matrix,
\* A[r][s] for the degrees of freedom r, s
AssembleBilinear(Vm, mk, kin, kout) ==
    IF Vm = FunctionSpace
    THEN [r \in Dofs(Vm) |-> [s \in Dofs(Vm) |->
            OverCells([c \in Cells |->
                RMul(permittivity(mk, c, kin, kout), SpaceStiffness[r][s][c])])]]
    ELSE [r \in Dofs(Vm) |-> [s \in Dofs(Vm) |->
            OverCells([c \in Cells |->
                RMul(permittivity(mk, c, kin, kout), CellStiffness(Vm, r, s, c))])]]

\* assemble(-Dx(v, i) * permittivity * dx): the load vector of direction i
AssembleLinear(i, Vm, mk, kin, kout) ==
    [r \in Dofs(Vm) |->
        OverCells([c \in Cells |->
            RMul(RMul(permittivity(mk, c, kin, kout), AreaTable[c]),
                 RSumTo([a \in 1..3 |->
                     IF CellDofs(Vm, c)[a] = r THEN RNeg(GradTable[c][a][i]) ELSE Zero], 3))])]

\* assemble(permittivity * (Dx(f, i) + 1) * dx) for the function with dof values F
AssembleFlux(F, i, Vm, mk, kin, kout) ==
    OverCells([c \in Cells |->
        RMul(RMul(permittivity(mk, c, kin, kout), AreaTable[c]),
             RAdd(RSumTo([a \in 1..3 |-> RMul(F[CellDofs(Vm, c)[a]], GradTable[c][a][i])], 3),
                  Unit))])

\* ------------------------------------------------------------------------
\* solve(A, x, b)
\* ------------------------------------------------------------------------
VertexIndex(v) == v[2] * (MeshN + 1) + v[1]

\* the degrees of freedom in the order of their vertex index
RECURSIVE DofSeq(_)
DofSeq(S) ==
    IF S = {} THEN <<>>
    ELSE LET m == CHOOSE d \in S : \A e \in S : VertexIndex(d) <= VertexIndex(e)
         IN <<m>> \o DofSeq(S \ {m})

RemoveAt(s, k) == [n \in 1..(Len(s) - 1) |-> IF n < k THEN s[n] ELSE s[n + 1]]

\* the determinant of the rows and columns of M listed in rows and cols
RECURSIVE Det(_, _, _)
Det(M, rows, cols) ==
    IF Len(rows) = 0 THEN Unit
    ELSE RSumTo([k \in 1..Len(cols) |->
             IF M[rows[1]][cols[k]] = Zero THEN Zero
             ELSE LET minor == Det(M, Tail(rows), RemoveAt(cols, k))
                  IN IF k % 2 = 1
                     THEN RMul(M[rows[1]][cols[k]], minor)
                     ELSE RNeg(RMul(M[rows[1]][cols[k]], minor))],
         Len(cols))

\* The matrix of a periodic cell problem always has the constant vector in
\* its null space and a load vector orthogonal to it, so the system has the
\* solutions u + c for one u and every constant c; the linear solver returns
\* one of them.  Here u is the solution that vanishes at the last degree of
\* freedom (Cramer's rule on the remaining ones) and shift is the constant.
\* When the remaining system is singular too, the factorisation breaks down
\* and the result is not a number.
LinearSolve(A, b, shift) ==
    LET all == DofSeq(DOMAIN b)
        pinned == all[Len(all)]
        free == SubSeq(all, 1, Len(all) - 1)
        den == Det(A, free, free)
    IN IF den = Zero \/ IsNaN(den)
       THEN [d \in DOMAIN b |-> NaN]
       ELSE [d \in DOMAIN b |->
               IF d = pinned THEN shift
               ELSE LET Ad == [r \in DOMAIN A |-> [s \in DOMAIN A |->
                                 IF s = d THEN b[r] ELSE A[r][s]]]
                    IN RAdd(RDiv(Det(Ad, free, free), den), shift)]

Shifts == {Rat(c, 1) : c \in 0..MaxShift}

\* A x - b at degree of freedom r
Residual(A, x, b, r) ==
    LET all == DofSeq(DOMAIN b)
    IN RSub(RSumTo([n \in 1..Len(all) |-> RMul(A[r][all[n]], x[all[n]])], Len(all)), b[r])

\* ------------------------------------------------------------------------
\* '%12.6e': a number in scientific notation with six digits after the
\* point, right-justified in twelve columns, as
\* <<sign, the seven digits of the mantissa, the exponent, leading blanks>>;
\* <<"", 1170000, 1, 0>> is the text 1.170000e+01
\* ------------------------------------------------------------------------
\* the exponent e with 10^e <= n/d < 10^(e+1), and n/d / 10^e as a fraction
RECURSIVE Normalise(_, _, _)
Normalise(n, d, e) ==
    IF n >= 10 * d THEN Normalise(n, 10 * d, e + 1)
    ELSE IF n < d THEN Normalise(10 * n, d, e - 1)
    ELSE <<n, d, e>>

\* k more digits of n/d after the digits acc; the remainder comes last
RECURSIVE Mantissa(_, _, _, _)
Mantissa(n, d, k, acc) ==
    IF k = 0 THEN <<acc, n>>
    ELSE Mantissa((n % d) * 10, d, k - 1, acc * 10 + (n \div d))

\* the number of binary digits of the natural number q
RECURSIVE BitLength(_)
BitLength(q) == IF q = 0 THEN 0 ELSE 1 + BitLength(q \div 2)

\* the remainder r of a fraction r/d < 1, shifted to its first binary digit 1
RECURSIVE LeadingBit(_, _)
LeadingBit(r, d) == IF 2 * r < d THEN LeadingBit(2 * r, d) ELSE r

\* The argument of %e is a float, the binary number of 53 digits nearest to
\* the real (ties to the even one).  After k more binary digits of r/d, last
\* being the digit before them: 1 when the float lies above the real, -1
\* when it lies below, 0 when the real is a float.
RECURSIVE BinaryTail(_, _, _, _)
BinaryTail(r, d, k, last) ==
    IF k = 0
    THEN IF r = 0 THEN 0
         ELSE IF 2 * r < d THEN -1
         ELSE IF 2 * r > d THEN 1
         ELSE IF last = 1 THEN 1 ELSE -1
    ELSE IF 2 * r >= d
         THEN BinaryTail(2 * r - d, d, k - 1, 1)
         ELSE BinaryTail(2 * r, d, k - 1, 0)

\* the side of n/d, n > 0, on which its float lies
FloatError(n, d) ==
    IF n \div d >= 1
    THEN BinaryTail(n % d, d, 53 - BitLength(n \div d), (n \div d) % 2)
    ELSE BinaryTail(LeadingBit(n, d), d, 53, 0)

\* %e rounds the float to seven digits, a float halfway between two of them
\* to the even one; a real halfway whose float is not goes where its float lies
FormatE(r) ==
    IF IsNaN(r) THEN <<"nan", 0, 0, 12 - 3>>
    ELSE IF r[1] = 0 THEN <<"", 0, 0, 0>>
    ELSE LET nz == Normalise(Abs(r[1]), r[2], 0)
             m == Mantissa(nz[1], nz[2], 7, 0)
             side == FloatError(Abs(r[1]), r[2])
             up == IF m[2] = 5 * nz[2]
                   THEN IF side > 0 \/ (side = 0 /\ m[1] % 2 = 1) THEN m[1] + 1 ELSE m[1]
                   ELSE IF m[2] > 5 * nz[2] THEN m[1] + 1 ELSE m[1]
             sg == IF r[1] < 0 THEN "-" ELSE ""
         IN IF up = 10000000 THEN <<sg, 1000000, nz[3] + 1, 0>> ELSE <<sg, up, nz[3], 0>>

\* one line of the file: '%12.6e %12.6e \n' % (a, b)
FormatRow(a, b) == <<FormatE(a), FormatE(b)>>

\* ------------------------------------------------------------------------
\* State
\* ------------------------------------------------------------------------
VARIABLES
    \* a caller of PeriodicBoundary: the point x and flag it passes, the
    \* array y that map() fills, the last result of inside(), the partner
    \* found for x, and the last call made
    px, pon, py, pres, prep, pop,
    \* a caller of Coeff.eval_cell: the array values and the cell passed
    values, cell,
    \* Y_solver: the subdomain markers read from the file and the two
    \* permittivities passed in
    markers, inner_permittivity, outer_permittivity,
    \* Y_solver: the statements executed so far, and its local variables
    done, V, A1, b1, F1, A2, b2, F2, A11, A12, A21, A22, ofile, ret, err

pbvars == <<px, pon, py, pres, prep, pop>>

coeffvars == <<values, cell>>

inputs == <<markers, inner_permittivity, outer_permittivity>>

system1 == <<A1, b1, F1>>

system2 == <<A2, b2, F2>>

tensor == <<A11, A12, A21, A22>>

solvervars == <<done, V, system1, system2, tensor, ofile, ret, err>>

vars == <<pbvars, coeffvars, inputs, solvervars>>

\* the subdomain markers: at most MaxInclusion cells of the inclusion (1),
\* the others of the matrix (2)
Taggings ==
    {[c \in Cells |-> IF c \in S THEN 1 ELSE 2] :
        S \in {T \in SUBSET Cells : Cardinality(T) <= MaxInclusion}}

PBIdle ==
    /\ px = Pt(0, 0) /\ pon = FALSE /\ py = Pt(0, 0)
    /\ pres = None /\ prep = None /\ pop = "idle"

CoeffIdle == values = [i \in {0} |-> Zero] /\ cell = -1

SolverIdle ==
    /\ done = {} /\ V = None
    /\ A1 = None /\ b1 = None /\ F1 = None
    /\ A2 = None /\ b2 = None /\ F2 = None
    /\ A11 = None /\ A12 = None /\ A21 = None /\ A22 = None
    /\ ofile = None /\ ret = None /\ err = None

\* ------------------------------------------------------------------------
\* Calls of PeriodicBoundary
\* ------------------------------------------------------------------------
\* the caller turns to another point of the closed unit square
PickPoint ==
    /\ px' \in SquarePoints
    /\ pon' \in BOOLEAN
    /\ pop' = "pick"
    /\ UNCHANGED <<py, pres, prep, coeffvars, inputs, solvervars>>

CallInside ==
    /\ pres' = inside(px, pon)
    /\ pop' = "inside"
    /\ UNCHANGED <<px, pon, py, prep, coeffvars, inputs, solvervars>>

CallMap ==
    /\ py' = map(px, py)
    /\ pop' = "map"
    /\ UNCHANGED <<px, pon, pres, prep, coeffvars, inputs, solvervars>>

\* the function space looks for the periodic partner of the boundary point x
Pair ==
    /\ OnBoundary(px)
    /\ prep' = PeriodicPartner(px)
    /\ pop' = "pair"
    /\ UNCHANGED <<px, pon, py, pres, coeffvars, inputs, solvervars>>

InitPB ==
    /\ px \in SquarePoints /\ pon \in BOOLEAN /\ py = Pt(0, 0)
    /\ pres = None /\ prep = None /\ pop = "pick"
    /\ CoeffIdle
    /\ markers = [c \in Cells |-> 2]
    /\ inner_permittivity = Unit /\ outer_permittivity = Unit
    /\ SolverIdle

NextPB == PickPoint \/ CallInside \/ CallMap \/ Pair

SpecPB == InitPB /\ [][NextPB]_vars

\* ------------------------------------------------------------------------
\* Calls of Coeff.eval_cell
\* ------------------------------------------------------------------------
TagValues == 0..MaxTag

\* markers with any tag value: one cell tagged t0, the others t1
AnyTaggings ==
    {[c \in Cells |-> IF c = c0 THEN t0 ELSE t1] :
        c0 \in Cells, t0 \in TagValues, t1 \in TagValues}

EvalCell ==
    /\ \E c \in Cells :
          /\ values' = eval_cell(values, markers, c, inner_permittivity, outer_permittivity)
          /\ cell' = c
    /\ UNCHANGED <<pbvars, inputs, solvervars>>

InitCoeff ==
    /\ PBIdle
    /\ CoeffIdle
    /\ markers \in AnyTaggings
    /\ inner_permittivity \in Permittivities
    /\ outer_permittivity \in Permittivities
    /\ SolverIdle

NextCoeff == EvalCell

SpecCoeff == InitCoeff /\ [][NextCoeff]_vars

\* ------------------------------------------------------------------------
\* Properties of the periodic boundary map
\* ------------------------------------------------------------------------
Corner00 == Pt(0, 0)

Corner01 == Pt(0, One)

Corner10 == Pt(One, 0)

Corner11 == Pt(One, One)

\* p lies on the left or the bottom edge and is neither (0,1) nor (1,0)
IsCanonical(p) == (p[0] = 0 \/ p[1] = 0) /\ p # Corner01 /\ p # Corner10

\* C1: for every point of the closed unit square and every flag, inside
\* returns true exactly when the flag is set and the point lies on the left
\* or bottom edge and is neither the corner (0,1) nor the corner (1,0).
C1_InsideIffCanonical ==
    pop = "inside" =>
        (pres <=> (pon /\ (px[0] = 0 \/ px[1] = 0) /\ px # Corner01 /\ px # Corner10))

C1_Witness == pop = "inside" /\ px = Corner01 /\ pon /\ pres = FALSE

\* C2: a call of map leaves the point as it is and fills y by three cases in
\* this order: (1,1) goes to (0,0); else a point with x = 1 goes to
\* (x - 1, y); else the point goes to (x, y - 1).
C2_MapThreeCases ==
    [][pop' = "map" =>
          /\ px' = px
          /\ (px = Corner11 => py' = Corner00)
          /\ (px # Corner11 /\ px[0] = One => py' = Pt(px[0] - One, px[1]))
          /\ (px[0] # One => py' = Pt(px[0], px[1] - One))]_vars

C2_Witness == pop = "map" /\ px = Pt(GridN, One) /\ py = Pt(GridN, 0)

\* C3 as stated: the corners (0,1) and (1,0) are matched to no other point,
\* each keeps its own degree of freedom.
C3_CornersUnpaired ==
    pop = "pair" /\ px \in {Corner01, Corner10} => prep = px

\* C3 amended: the corners (0,1) and (1,0) are not canonical points; each is
\* matched to the corner (0,0), and no point is matched to either of them.
C3_CornersPairedWithOrigin ==
    pop = "pair" =>
        /\ (px \in {Corner01, Corner10} => prep = Corner00)
        /\ (px \notin {Corner01, Corner10} => prep \notin {Corner01, Corner10})

C3_Witness == pop = "pair" /\ px = Corner10 /\ prep = Corner00

\* C4: map never sends a boundary point to the corner (0,1) or (1,0), and
\* inside is false at both corners whatever the flag.
C4_ExcludedCorners ==
    /\ (pop = "map" /\ OnBoundary(px) => py \notin {Corner01, Corner10})
    /\ (pop = "inside" /\ px \in {Corner01, Corner10} => pres = FALSE)

C4_Witness == pop = "map" /\ px = Corner11 /\ py = Corner00

\* C10: every boundary point that is not canonical has a canonical partner
\* on the boundary, every canonical point is its own partner, and the
\* partner of a partner is that partner.
C10_PartnerIsCanonical ==
    pop = "pair" =>
        /\ (IsCanonical(px) => prep = px)
        /\ (~ IsCanonical(px) => prep = map(px, py) /\ OnBoundary(prep) /\ IsCanonical(prep))
        /\ PeriodicPartner(prep) = prep

C10_Witness == pop = "pair" /\ px = Pt(One, GridN) /\ prep = Pt(0, GridN)

\* ------------------------------------------------------------------------
\* Properties of the coefficient
\* ------------------------------------------------------------------------
\* C5: an evaluation yields inner_permittivity on a cell tagged 1 and
\* outer_permittivity on a cell with any other tag, and changes neither the
\* markers nor the two permittivities.
C5_EvalCell ==
    [][/\ (markers[cell'] = 1 => values'[0] = inner_permittivity)
       /\ (markers[cell'] # 1 => values'[0] = outer_permittivity)
       /\ UNCHANGED inputs]_vars

C5_Witness ==
    /\ cell \in Cells
    /\ markers[cell] = 3
    /\ inner_permittivity # outer_permittivity
    /\ values[0] = outer_permittivity

\* ------------------------------------------------------------------------
\* Y_solver, one action per statement
\* ------------------------------------------------------------------------
\* the statement l has not run and no error has ended the call
Pending(l) == l \notin done /\ err = None

\* V = FunctionSpace(mesh, "P", 1, constrained_domain = PeriodicBoundary())
BuildSpace ==
    /\ Pending("V")
    /\ V' = FunctionSpace
    /\ done' = done \cup {"V"}
    /\ UNCHANGED <<pbvars, coeffvars, inputs, system1, system2, tensor, ofile, ret, err>>

\* f1 = Function(V); F1 = f1.vector()
NewF1 ==
    /\ Pending("f1")
    /\ F1' = [d \in Dofs(V) |-> Zero]
    /\ done' = done \cup {"f1"}
    /\ UNCHANGED <<pbvars, coeffvars, inputs, V, A1, b1, system2, tensor, ofile, ret, err>>

\* f2 = Function(V); F2 = f2.vector()
NewF2 ==
    /\ Pending("f2")
    /\ F2' = [d \in Dofs(V) |-> Zero]
    /\ done' = done \cup {"f2"}
    /\ UNCHANGED <<pbvars, coeffvars, inputs, V, system1, A2, b2, tensor, ofile, ret, err>>

\* A1 = assemble(a1)
AssembleA1 ==
    /\ Pending("A1")
    /\ A1' = AssembleBilinear(V, markers, inner_permittivity, outer_permittivity)
    /\ done' = done \cup {"A1"}
    /\ UNCHANGED <<pbvars, coeffvars, inputs, V, b1, F1, system2, tensor, ofile, ret, err>>

\* b1 = assemble(L1)
AssembleL1 ==
    /\ Pending("b1")
    /\ b1' = AssembleLinear(0, V, markers, inner_permittivity, outer_permittivity)
    /\ done' = done \cup {"b1"}
    /\ UNCHANGED <<pbvars, coeffvars, inputs, V, A1, F1, system2, tensor, ofile, ret, err>>

\* solve(A1, F1, b1)
Solve1 ==
    /\ Pending("solve1")
    /\ \E c \in Shifts : F1' = LinearSolve(A1, b1, c)
    /\ done' = done \cup {"solve1"}
    /\ UNCHANGED <<pbvars, coeffvars, inputs, V, A1, b1, system2, tensor, ofile, ret, err>>

\* solve(A1, F1, b1) when the factorisation of a singular matrix is reported
Solve1Raise ==
    /\ Pending("solve1")
    /\ \E d \in DOMAIN b1 : IsNaN(LinearSolve(A1, b1, Zero)[d])
    /\ err' = "RuntimeError"
    /\ UNCHANGED <<pbvars, coeffvars, inputs, done, V, system1, system2, tensor, ofile, ret>>

\* A2 = assemble(a2)
AssembleA2 ==
    /\ Pending("A2")
    /\ A2' = AssembleBilinear(V, markers, inner_permittivity, outer_permittivity)
    /\ done' = done \cup {"A2"}
    /\ UNCHANGED <<pbvars, coeffvars, inputs, V, system1, b2, F2, tensor, ofile, ret, err>>

\* the load vector of direction 1 assembled into the vector of direction 0
AssembleL2_shared ==
    /\ Pending("b2")
    /\ b2' = AssembleLinear(1, V, markers, inner_permittivity, outer_permittivity)
    /\ b1' = b2'
    /\ done' = done \cup {"b2"}
    /\ UNCHANGED <<pbvars, coeffvars, inputs, V, A1, F1, A2, F2, tensor, ofile, ret, err>>

\* b2 = assemble(L2)
AssembleL2 ==
    /\ Pending("b2")
    /\ b2' = AssembleLinear(1, V, markers, inner_permittivity, outer_permittivity)
    /\ done' = done \cup {"b2"}
    /\ UNCHANGED <<pbvars, coeffvars, inputs, V, system1, A2, F2, tensor, ofile, ret, err>>

\* solve(A2, F2, b2)
Solve2 ==
    /\ Pending("solve2")
    /\ \E c \in Shifts : F2' = LinearSolve(A2, b2, c)
    /\ done' = done \cup {"solve2"}
    /\ UNCHANGED <<pbvars, coeffvars, inputs, V, system1, A2, b2, tensor, ofile, ret, err>>

\* solve(A2, F2, b2) when the factorisation of a singular matrix is reported
Solve2Raise ==
    /\ Pending("solve2")
    /\ \E d \in DOMAIN b2 : IsNaN(LinearSolve(A2, b2, Zero)[d])
    /\ err' = "RuntimeError"
    /\ UNCHANGED <<pbvars, coeffvars, inputs, done, V, system1, system2, tensor, ofile, ret>>

\* A11 = assemble(permittivity * (Dx(f1, 0) + 1) * dx)
ComputeA11 ==
    /\ Pending("A11")
    /\ A11' = AssembleFlux(F1, 0, V, markers, inner_permittivity, outer_permittivity)
    /\ done' = done \cup {"A11"}
    /\ UNCHANGED <<pbvars, coeffvars, inputs, V, system1, system2, A12, A21, A22, ofile, ret, err>>

\* the off-diagonal entry integrated like the diagonal ones
SetA12_integrated ==
    /\ Pending("A12")
    /\ A12' = AssembleFlux(F1, 1, V, markers, inner_permittivity, outer_permittivity)
    /\ done' = done \cup {"A12"}
    /\ UNCHANGED <<pbvars, coeffvars, inputs, V, system1, system2, A11, A21, A22, ofile, ret, err>>

\* A12 = 0
SetA12 ==
    /\ Pending("A12")
    /\ A12' = Zero
    /\ done' = done \cup {"A12"}
    /\ UNCHANGED <<pbvars, coeffvars, inputs, V, system1, system2, A11, A21, A22, ofile, ret, err>>

\* A21 = 0
SetA21 ==
    /\ Pending("A21")
    /\ A21' = Zero
    /\ done' = done \cup {"A21"}
    /\ UNCHANGED <<pbvars, coeffvars, inputs, V, system1, system2, A11, A12, A22, ofile, ret, err>>

\* A22 = assemble(permittivity * (Dx(f2, 1) + 1) * dx)
ComputeA22 ==
    /\ Pending("A22")
    /\ A22' = AssembleFlux(F2, 1, V, markers, inner_permittivity, outer_permittivity)
    /\ done' = done \cup {"A22"}
    /\ UNCHANGED <<pbvars, coeffvars, inputs, V, system1, system2, A11, A12, A21, ofile, ret, err>>

\* ofile = open('effective', 'w'); the two ofile.write; ofile.close()
WriteFile ==
    /\ Pending("write")
    /\ ofile' = <<FormatRow(A11, A12), FormatRow(A21, A22)>>
    /\ done' = done \cup {"write"}
    /\ UNCHANGED <<pbvars, coeffvars, inputs, V, system1, system2, tensor, ret, err>>

\* return f1, f2
Return ==
    /\ Pending("return")
    /\ ret' = <<F1, F2>>
    /\ done' = done \cup {"return"}
    /\ UNCHANGED <<pbvars, coeffvars, inputs, V, system1, system2, tensor, ofile, err>>

\* Y_solver is called with any two permittivities: it checks neither
Init ==
    /\ PBIdle
    /\ CoeffIdle
    /\ markers \in Taggings
    /\ inner_permittivity \in Permittivities
    /\ outer_permittivity \in Permittivities
    /\ SolverIdle

\* the statements in program order
Order ==
    <<"V", "f1", "f2", "A1", "b1", "solve1", "A2", "b2", "solve2",
      "A11", "A12", "A21", "A22", "write", "return">>

\* l is the next statement of the program
InOrder(l) == \E n \in 1..Len(Order) : Order[n] = l /\ done = {Order[m] : m \in 1..(n - 1)}

Next ==
    \/ InOrder("V") /\ BuildSpace
    \/ InOrder("f1") /\ NewF1
    \/ InOrder("f2") /\ NewF2
    \/ InOrder("A1") /\ AssembleA1
    \/ InOrder("b1") /\ AssembleL1
    \/ InOrder("solve1") /\ Solve1
    \/ InOrder("solve1") /\ Solve1Raise
    \/ InOrder("A2") /\ AssembleA2
    \/ InOrder("b2") /\ AssembleL2
    \/ InOrder("solve2") /\ Solve2
    \/ InOrder("solve2") /\ Solve2Raise
    \/ InOrder("A11") /\ ComputeA11
    \/ InOrder("A12") /\ SetA12
    \/ InOrder("A21") /\ SetA21
    \/ InOrder("A22") /\ ComputeA22
    \/ InOrder("write") /\ WriteFile
    \/ InOrder("return") /\ Return

Spec == Init /\ [][Next]_vars

\* ------------------------------------------------------------------------
\* The two corrector problems scheduled by data dependency only: the
\* statements of line 96 and those of line 98 in any interleaving, each
\* group in its own order; every other statement in program order
\* ------------------------------------------------------------------------
Task0 == <<"A1", "b1", "solve1">>

Task1 == <<"A2", "b2", "solve2">>

Interleaved(l) ==
    /\ {"V", "f1", "f2"} \subseteq done
    /\ \E T \in {Task0, Task1} : \E n \in 1..Len(T) :
          T[n] = l /\ {T[m] : m \in 1..(n - 1)} \subseteq done

NextPar ==
    \/ InOrder("V") /\ BuildSpace
    \/ InOrder("f1") /\ NewF1
    \/ InOrder("f2") /\ NewF2
    \/ Interleaved("A1") /\ AssembleA1
    \/ Interleaved("b1") /\ AssembleL1
    \/ Interleaved("solve1") /\ Solve1
    \/ Interleaved("A2") /\ AssembleA2
    \/ Interleaved("b2") /\ AssembleL2
    \/ Interleaved("solve2") /\ Solve2
    \/ InOrder("A11") /\ ComputeA11
    \/ InOrder("A12") /\ SetA12
    \/ InOrder("A21") /\ SetA21
    \/ InOrder("A22") /\ ComputeA22
    \/ InOrder("write") /\ WriteFile
    \/ InOrder("return") /\ Return

\* the calls with two positive permittivities: their matrices are positive
\* definite up to the constants, so no factorisation breaks down
InitPar ==
    /\ Init
    /\ inner_permittivity[1] > 0
    /\ outer_permittivity[1] > 0

SpecPar == InitPar /\ [][NextPar]_vars

\* ------------------------------------------------------------------------
\* Properties of Y_solver
\* ------------------------------------------------------------------------
\* C6: in every run both off-diagonal entries are exactly 0, and the file
\* written holds the rows (A11, 0) and (0, A22).
C6_OffDiagonalZero ==
    /\ ("A12" \in done => A12 = <<0, 1>>)
    /\ ("A21" \in done => A21 = <<0, 1>>)
    /\ ("write" \in done =>
          /\ ofile[1] = <<FormatE(A11), <<"", 0, 0, 0>>>>
          /\ ofile[2] = <<<<"", 0, 0, 0>>, FormatE(A22)>>)

\* a run on a heterogeneous cell that wrote the file: the diagonal entries
\* lie strictly between the two permittivities, the others are 0
C6_Witness ==
    /\ "write" \in done
    /\ inner_permittivity = <<2, 1>> /\ outer_permittivity = <<1, 1>>
    /\ \E c \in Cells : markers[c] = 1
    /\ A11 \notin {NaN, inner_permittivity, outer_permittivity}
    /\ A12 = Zero /\ A21 = Zero
    /\ ofile[1][2] = <<"", 0, 0, 0>> /\ ofile[2][1] = <<"", 0, 0, 0>>

\* C7: a call with outer_permittivity = 0 or inner_permittivity = -1 ends in
\* a ConfigurationError before anything is solved, integrated, written or
\* returned.
C7_ConfigurationError ==
    (outer_permittivity = <<0, 1>> \/ inner_permittivity = <<-1, 1>>) =>
        /\ done \cap {"solve1", "solve2", "A11", "A22", "write", "return"} = {}
        /\ err \in {None, "ConfigurationError"}

\* C8: with inner_permittivity = outer_permittivity = k > 0, whatever the
\* markers, both load vectors vanish, both correctors are constant, and the
\* effective tensor is diag(k, k).
C8_HomogeneousCell ==
    (inner_permittivity = outer_permittivity /\ inner_permittivity[1] > 0) =>
        /\ ("b1" \in done => \A d \in DOMAIN b1 : b1[d] = <<0, 1>>)
        /\ ("b2" \in done => \A d \in DOMAIN b2 : b2[d] = <<0, 1>>)
        /\ ("solve1" \in done => \A d, e \in DOMAIN F1 : F1[d] = F1[e])
        /\ ("solve2" \in done => \A d, e \in DOMAIN F2 : F2[d] = F2[e])
        /\ ("A11" \in done => A11 = inner_permittivity)
        /\ ("A22" \in done => A22 = inner_permittivity)

C8_Witness ==
    /\ "write" \in done
    /\ inner_permittivity = <<2, 1>> /\ outer_permittivity = <<2, 1>>
    /\ \E c \in Cells : markers[c] = 1
    /\ A11 = <<2, 1>> /\ A22 = <<2, 1>>
    /\ ofile[1][1] = <<"", 2000000, 0, 0>>

\* the system of direction i as assembled from the inputs alone
SequentialSystems(i) ==
    {<<A, b>> :
        A \in {AssembleBilinear(FunctionSpace, markers, inner_permittivity, outer_permittivity)},
        b \in {AssembleLinear(i, FunctionSpace, markers, inner_permittivity, outer_permittivity)}}

\* F is a field the solve of direction i yields in the sequential order: a
\* solution of the system of direction i
IsSequentialField(F, i) ==
    \A Ab \in SequentialSystems(i) : \A r \in DOMAIN F : Residual(Ab[1], F, Ab[2], r) = <<0, 1>>

\* the diagonal entry i in the sequential order, the same for every field the
\* solve may return
SequentialEntries(i) ==
    {AssembleFlux(LinearSolve(Ab[1], Ab[2], Zero), i, FunctionSpace,
                  markers, inner_permittivity, outer_permittivity) :
        Ab \in SequentialSystems(i)}

Runs(l) == l \notin done /\ l \in done'

\* C9: in every interleaving of the two corrector problems each solve yields
\* a field that the sequential order yields, each diagonal entry is the one
\* the sequential order yields, and no solve writes the markers, the
\* permittivities, the function space or the system of the other direction.
C9_OrderIndependent ==
    [][/\ UNCHANGED inputs
       /\ ("V" \in done => V' = V)
       /\ (Runs("solve1") => IsSequentialField(F1', 0) /\ UNCHANGED system2)
       /\ (Runs("solve2") => IsSequentialField(F2', 1) /\ UNCHANGED system1)
       /\ (Runs("A11") => SequentialEntries(0) = {A11'})
       /\ (Runs("A22") => SequentialEntries(1) = {A22'})]_vars

\* on a heterogeneous cell, direction 1 is assembled and solved between the
\* assembly and the solve of direction 0, and its corrector is not constant
C9_Witness ==
    /\ {"A1", "solve2"} \subseteq done
    /\ "solve1" \notin done
    /\ inner_permittivity # outer_permittivity
    /\ \E c \in Cells : markers[c] = 1
    /\ \E d, e \in DOMAIN F2 : F2[d] # F2[e]

====
